---- MODULE Spec2Model ----
(***************************************************************************)
(* Model of the primal-dual iterators and priors of deepinv:               *)
(*   deepinv/optim/prior.py                         (Prior and variants)   *)
(*   deepinv/optim/optim_iterators/primal_dual_CP.py (Chambolle-Pock)      *)
(*   examples/plug-and-play/demo_PnP_custom_optim.py (Condat-Vu)           *)
(*                                                                         *)
(* Numbers are exact rationals <<num, den>> (den > 0, lowest terms).       *)
(* A tensor is a constant vector: n entries, all equal to v.  The class of *)
(* constant vectors is closed under every operation the code applies       *)
(* (elementwise arithmetic with torch broadcasting, scalar scaling, the    *)
(* linear operators and the denoiser drawn below), so on these inputs the  *)
(* model computes exactly what the code computes.                          *)
(***************************************************************************)
EXTENDS Integers, Sequences, FiniteSets, TLC

-----------------------------------------------------------------------------
(* Exact rational arithmetic *)

Abs(a) == IF a < 0 THEN -a ELSE a

RECURSIVE GCD(_, _)
GCD(a, b) == IF b = 0 THEN a ELSE GCD(b, a % b)

Rat(n, d) ==
    LET g == GCD(Abs(n), Abs(d))
        s == IF d < 0 THEN -1 ELSE 1
    IN  << (s * n) \div g, (s * d) \div g >>

Zero == Rat(0, 1)
One == Rat(1, 1)
Two == Rat(2, 1)
Half == Rat(1, 2)

RAdd(p, q) ==
    LET g == GCD(p[2], q[2])
    IN  Rat(p[1] * (q[2] \div g) + q[1] * (p[2] \div g), (p[2] \div g) * q[2])
RNeg(p) == << -p[1], p[2] >>
RSub(p, q) == RAdd(p, RNeg(q))
RMul(p, q) ==
    LET a == Rat(p[1], q[2])
        b == Rat(q[1], p[2])
    IN  Rat(a[1] * b[1], a[2] * b[2])
RInv(p) == Rat(p[2], p[1])
RDiv(p, q) == RMul(p, RInv(q))
RInt(k) == Rat(k, 1)
RAbs(p) == << Abs(p[1]), p[2] >>
RSign(p) == RInt(IF p[1] > 0 THEN 1 ELSE IF p[1] < 0 THEN -1 ELSE 0)

-----------------------------------------------------------------------------
(* Tensors, torch broadcasting, Python exceptions *)

\* A tensor value, or the exception that the expression computing it raised.
\* ref says which object the tensor is: "new" for the result of an
\* expression, or the name under which a caller holds it.
Tn(n, v) == [err |-> "", n |-> n, v |-> v, ref |-> "new"]
Raise(e) == [err |-> e, n |-> 0, v |-> Zero, ref |-> "new"]
Named(t, name) == [t EXCEPT !.ref = name]
IsErr(t) == t.err # ""

\* torch broadcasting of two 1-D shapes: equal, or one of them is 1.
Broadcastable(n, m) == n = m \/ n = 1 \/ m = 1
BroadcastShape(n, m) == IF n = 1 THEN m ELSE n

TAdd(a, b) ==
    IF IsErr(a) THEN a
    ELSE IF IsErr(b) THEN b
    ELSE IF ~Broadcastable(a.n, b.n) THEN Raise("RuntimeError")
    ELSE Tn(BroadcastShape(a.n, b.n), RAdd(a.v, b.v))

TSub(a, b) ==
    IF IsErr(a) THEN a
    ELSE IF IsErr(b) THEN b
    ELSE IF ~Broadcastable(a.n, b.n) THEN Raise("RuntimeError")
    ELSE Tn(BroadcastShape(a.n, b.n), RSub(a.v, b.v))

\* scalar * tensor
TScale(s, t) == IF IsErr(t) THEN t ELSE Tn(t.n, RMul(s, t.v))

\* tensor / scalar (s # 0)
TDivS(t, s) == IF IsErr(t) THEN t ELSE Tn(t.n, RDiv(t.v, s))

-----------------------------------------------------------------------------
(* External collaborators: linear operators and the denoiser *)

\* A linear operator handed to the iterator (K, K_adjoint, physics.A,
\* physics.A_adjoint).  kind "scale": a * Id, elementwise, any shape.
\* kind "ones": a * ones(dout, din), which needs an input of din entries.
LinOp(kind, din, dout, a) == [kind |-> kind, din |-> din, dout |-> dout, a |-> a]

Apply(op, t) ==
    IF IsErr(t) THEN t
    ELSE IF op.kind = "scale" THEN Tn(t.n, RMul(op.a, t.v))
    ELSE IF t.n # op.din THEN Raise("RuntimeError")
    ELSE Tn(op.dout, RMul(RMul(op.a, RInt(op.din)), t.v))

Adjoint(op) == LinOp(op.kind, op.dout, op.din, op.a)

\* denoiser(x, sigma): soft-thresholding of the entries at level sigma,
\* sign(x) * max(|x| - sigma, 0); the shape is kept.
Denoise(x, sigma) ==
    LET d == RSub(RAbs(x.v), sigma)
    IN  IF IsErr(x) THEN x
        ELSE IF d[1] <= 0 THEN Tn(x.n, Zero)
        ELSE Tn(x.n, RMul(RSign(x.v), d))

-----------------------------------------------------------------------------
(* Calls: every method returns its value together with the calls it made *)

Ret(t, calls) == [t |-> t, calls |-> calls]
Call(fn, at, step, args) == [fn |-> fn, at |-> at, step |-> step, args |-> args]

\* The only element of a one-element set.  Written
\*     The({ Body(w) : w \in {v} })
\* it is Body(v) with v evaluated once: a value bound by a set is a value,
\* where a LET definition is an expression evaluated at each of its uses.
The(S) == CHOOSE r \in S : TRUE

\* the calls of a log that went to fn
CallsTo(calls, fn) == SelectSeq(calls, LAMBDA c : c.fn = fn)

-----------------------------------------------------------------------------
(* deepinv/optim/prior.py *)

\* Defaults of Prior.prox's keyword parameters.
MaxIterInter == 50
TolInter == Rat(1, 1000)
StepsizeInter == One

\* Mutation of Prior.__init__: every prior is flagged as explicit, whether or
\* not a potential was given.
Prior__init__always_explicit(g) ==
    [cls |-> "Prior", g |-> g, denoiser |-> "None", explicit_prior |-> TRUE]

\* Prior.__init__(g): g is "None" or names an explicit potential.
Prior__init__(g) ==
    [cls |-> "Prior", g |-> g, denoiser |-> "None", explicit_prior |-> (g # "None")]

\* PnP.__init__(denoiser, g): super().__init__(g), then the denoiser.
PnP__init__(denoiser, g) ==
    [Prior__init__(g) EXCEPT !.cls = "PnP", !.denoiser = denoiser, !.explicit_prior = FALSE]

\* RED.__init__(denoiser, g)
RED__init__(denoiser, g) ==
    [Prior__init__(g) EXCEPT !.cls = "RED", !.denoiser = denoiser, !.explicit_prior = FALSE]

\* Tikhonov.__init__(): sets explicit_prior only (no _g, no denoiser).
Tikhonov__init__ ==
    [cls |-> "Tikhonov", g |-> "None", denoiser |-> "None", explicit_prior |-> TRUE]

\* ScorePrior.__init__(self, denoiser, *args, **kwargs): the keyword
\* arguments go to Prior.__init__(self, g=None), which accepts none but g.
\* kw is << >> or << name, value >>.  The result is the instance, or the
\* exception raised.
ScorePrior__init__(denoiser, kw) ==
    IF Len(kw) # 0 /\ kw[1] # "g" THEN Raise("TypeError")
    ELSE [cls |-> "ScorePrior", g |-> (IF Len(kw) = 0 THEN "None" ELSE kw[2]),
          denoiser |-> denoiser, explicit_prior |-> FALSE]

\* The explicit potential "l1" is g(x, *args) = ||x||_1 (extra arguments are
\* accepted and unused).
Potential(g, x) ==
    IF IsErr(x) THEN x ELSE Tn(1, RMul(RInt(x.n), RAbs(x.v)))

\* d/dx of the potential at x, what torch.autograd.grad returns for it.
AutogradOfPotential(g, x) == Tn(x.n, RSign(x.v))

\* Prior.g(x, *args): self._g(x, *args); calling a None _g is a TypeError.
Prior_g(prior, x, args) ==
    IF prior.g = "None" THEN Ret(Raise("TypeError"), << Call("g", x, Zero, args) >>)
    ELSE Ret(Potential(prior.g, x), << Call("g", x, Zero, args) >>)

\* The nonnegative number whose square is q, as torch.norm returns it: a
\* tensor of one entry per batch element (here one).
Sqrt(q) == [err |-> "", n |-> 1, sq |-> q, ref |-> "new"]

\* Tikhonov.g(self, x): 0.5 * torch.norm(x.view(x.shape[0], -1), p=2, dim=-1),
\* and 0.5 * sqrt(n v^2) = sqrt(n v^2 / 4) for x = v 1_n.
Tikhonov_g(x, args) ==
    IF IsErr(x) THEN Ret(x, << >>)
    ELSE IF Len(args) # 0 THEN Ret(Raise("TypeError"), << Call("g", x, Zero, args) >>)
    ELSE Ret(Sqrt(RMul(Rat(1, 4), RMul(RInt(x.n), RMul(x.v, x.v)))),
             << Call("g", x, Zero, args) >>)

\* Mutation of RED.grad: denoiser(x, sigma) - x, the sign is reversed.
Prior_grad_red_sign(prior, x, args) ==
    LET me == << Call("grad", x, Zero, args) >>
    IN  IF IsErr(x) THEN Ret(x, << >>)
        ELSE IF prior.cls = "Tikhonov" THEN
            IF Len(args) # 0 THEN Ret(Raise("TypeError"), me)
            ELSE Ret(x, me)
        ELSE IF prior.cls = "RED" THEN
            IF Len(args) = 0 THEN Ret(Raise("TypeError"), me)
            ELSE Ret(TSub(Denoise(x, args[1]), x),
                     me \o << Call("denoiser", x, args[1], << >>) >>)
        ELSE IF prior.g = "None" THEN
            Ret(Raise("TypeError"),
                me \o << Call("requires_grad_", x, Zero, << >>), Call("g", x, Zero, args) >>)
        ELSE
            Ret(AutogradOfPotential(prior.g, x),
                me \o << Call("requires_grad_", x, Zero, << >>), Call("g", x, Zero, args) >>)

\* prior.grad(x, *args), dispatched on the class:
\*   Tikhonov.grad(self, x), RED.grad(self, x, sigma_denoiser, *args),
\*   Prior.grad(self, x, *args): x.requires_grad_() in place on the tensor
\*   it was handed, then autograd through self.g(x, *args), which raises as
\*   Prior.g does when _g is None.
Prior_grad(prior, x, args) ==
    LET me == << Call("grad", x, Zero, args) >>
    IN  IF IsErr(x) THEN Ret(x, << >>)
        ELSE IF prior.cls = "Tikhonov" THEN
            IF Len(args) # 0 THEN Ret(Raise("TypeError"), me)
            ELSE Ret(x, me)
        ELSE IF prior.cls = "RED" THEN
            IF Len(args) = 0 THEN Ret(Raise("TypeError"), me)
            ELSE Ret(TSub(x, Denoise(x, args[1])),
                     me \o << Call("denoiser", x, args[1], << >>) >>)
        ELSE IF prior.g = "None" THEN
            Ret(Raise("TypeError"),
                me \o << Call("requires_grad_", x, Zero, << >>), Call("g", x, Zero, args) >>)
        ELSE
            Ret(AutogradOfPotential(prior.g, x),
                me \o << Call("requires_grad_", x, Zero, << >>), Call("g", x, Zero, args) >>)

\* p1/q1 < p2/q2 for naturals (q1, q2 > 0), by continued fractions: no product
\* is formed, so no intermediate value exceeds the operands.
RECURSIVE FracLess(_, _, _, _)
FracLess(p1, q1, p2, q2) ==
    IF p1 \div q1 # p2 \div q2 THEN p1 \div q1 < p2 \div q2
    ELSE IF p1 % q1 = 0 THEN p2 % q2 > 0
    ELSE IF p2 % q2 = 0 THEN FALSE
    ELSE FracLess(q2, p2 % q2, q1, p1 % q1)

\* ||t||_2 < tol for a constant vector t = (a/b) 1_n and tol = p/q > 0, that
\* is n A^2 < B^2 with A = q |a| and B = p b.  With B = r A + s this is
\* ((n - r^2) A - 2 r s) A < s^2.
NormLess(t, tol) ==
    LET A == tol[2] * Abs(t.v[1])
        B == tol[1] * t.v[2]
        r == B \div A
        s == B % A
        L == (t.n - r * r) * A - 2 * r * s
    IN  IF A = 0 THEN TRUE
        ELSE IF r > t.n \/ r * r > t.n THEN TRUE
        ELSE IF (r + 1) * (r + 1) <= t.n THEN FALSE
        ELSE IF L < 0 THEN TRUE
        ELSE IF L = 0 THEN s > 0
        ELSE IF s = 0 THEN FALSE
        ELSE FracLess(L, s, s, A)

\* One pass of the loop of gradient_descent(grad, x, step_size, max_iter, tol)
\* of deepinv.optim.utils, with grad = lambda z: gamma * self.grad(z, *args)
\* + (z - x).  s.t is the current iterate; s.done says that the loop was left
\* (the break on convergence, or an exception).
GDStep(prior, x, gamma, args, step_size, tol, s) ==
    IF s.done THEN s
    ELSE
        LET z == s.t
            gr == Prior_grad(prior, z, args)
            d == TAdd(TScale(gamma, gr.t), TSub(z, x))
        IN  The({ [t |-> new, calls |-> s.calls \o gr.calls,
                   done |-> IsErr(new) \/ NormLess(TSub(new, z), tol)] :
                  new \in { TSub(z, TScale(step_size, d)) } })

\* n passes of the loop from s (the first half of them, then the rest).
RECURSIVE GDLoop(_, _, _, _, _, _, _, _)
GDLoop(prior, x, gamma, args, step_size, tol, s, n) ==
    IF n = 0 THEN s
    ELSE IF n = 1 THEN GDStep(prior, x, gamma, args, step_size, tol, s)
    ELSE The({ GDLoop(prior, x, gamma, args, step_size, tol, mid, n - n \div 2) :
               mid \in { GDLoop(prior, x, gamma, args, step_size, tol, s, n \div 2) } })

\* gradient_descent(grad, x, step_size, max_iter, tol): at most max_iter
\* passes from z = x; calls is the log so far.
gradient_descent(prior, x, gamma, args, step_size, max_iter, tol, calls) ==
    LET s == GDLoop(prior, x, gamma, args, step_size, tol,
                    [t |-> x, calls |-> calls, done |-> FALSE], max_iter)
    IN  Ret(s.t, s.calls)

\* Mutation of Tikhonov.prox: the factor is gamma / (gamma + 1), the one of
\* the conjugate's prox.
Tikhonov_prox_conjugate_factor(x, gamma, args) ==
    IF Len(args) # 0 THEN Ret(Raise("TypeError"), << >>)
    ELSE IF RAdd(gamma, One) = Zero THEN Ret(Raise("ZeroDivisionError"), << >>)
    ELSE Ret(TScale(RDiv(gamma, RAdd(gamma, One)), x), << >>)

\* Tikhonov.prox(self, x, gamma)
Tikhonov_prox(x, gamma, args) ==
    IF Len(args) # 0 THEN Ret(Raise("TypeError"), << >>)
    ELSE IF RAdd(gamma, One) = Zero THEN Ret(Raise("ZeroDivisionError"), << >>)
    ELSE Ret(TScale(RDiv(One, RAdd(gamma, One)), x), << >>)

\* Mutation of PnP.prox: the denoiser is run at the noise level gamma.
PnP_prox_gamma_as_sigma(prior, x, gamma, args) ==
    IF Len(args) = 0 THEN Ret(Raise("TypeError"), << >>)
    ELSE Ret(Denoise(x, gamma), << Call("denoiser", x, gamma, << >>) >>)

\* PnP.prox(self, x, gamma, sigma_denoiser, *args)
PnP_prox(prior, x, gamma, args) ==
    IF Len(args) = 0 THEN Ret(Raise("TypeError"), << >>)
    ELSE Ret(Denoise(x, args[1]), << Call("denoiser", x, args[1], << >>) >>)

\* Mutation of Prior.prox: the inner stepsize defaults to 0.5.
Prior_prox_default_half_step(prior, x, gamma, args) ==
    gradient_descent(prior, x, gamma, args, Half, MaxIterInter, TolInter, << >>)

\* Prior.prox(self, x, gamma, *args, stepsize_inter=1.0, max_iter_inter=50,
\* tol_inter=1e-3)
Prior_prox_default(prior, x, gamma, args) ==
    gradient_descent(prior, x, gamma, args, StepsizeInter, MaxIterInter, TolInter, << >>)

\* prior.prox(x, gamma, *args): the call, and the method the instance's class
\* resolves it to.
Prior_prox(prior, x, gamma, args) ==
    LET me == << Call("prox", x, gamma, args) >>
        r == IF prior.cls = "Tikhonov" THEN Tikhonov_prox(x, gamma, args)
             ELSE IF prior.cls = "PnP" THEN PnP_prox(prior, x, gamma, args)
             ELSE Prior_prox_default(prior, x, gamma, args)
    IN  IF IsErr(x) THEN Ret(x, << >>)
        ELSE The({ Ret(v.t, me \o v.calls) : v \in {r} })

\* ScorePrior.forward(self, x, sigma)
ScorePrior_forward(prior, x, args) ==
    LET me == << Call("forward", x, Zero, args) >>
    IN  IF IsErr(x) THEN Ret(x, << >>)
        ELSE IF Len(args) # 1 THEN Ret(Raise("TypeError"), me)
        ELSE IF args[1] = Zero THEN Ret(Raise("ZeroDivisionError"), me)
        ELSE Ret(TScale(RDiv(One, RMul(args[1], args[1])), TSub(x, Denoise(x, args[1]))),
                 me \o << Call("denoiser", x, args[1], << >>) >>)

\* prior.forward(x, *args): ScorePrior.forward, or Prior.forward, which is
\* self.g(x, *args)
Prior_forward(prior, x, args) ==
    IF prior.cls = "ScorePrior" THEN ScorePrior_forward(prior, x, args)
    ELSE IF prior.cls = "Tikhonov" THEN Tikhonov_g(x, args)
    ELSE Prior_g(prior, x, args)

\* Mutation of Prior.prox_conjugate: the step handed to prox is lamb * gamma
\* where the code divides.
Prior_prox_conjugate_lamb_times_gamma(prior, x, gamma, args, kw) ==
    LET lamb == IF Len(kw) = 0 THEN One ELSE kw[1]
    IN  IF IsErr(x) THEN Ret(x, << >>)
        ELSE IF gamma = Zero THEN Ret(Raise("ZeroDivisionError"), << >>)
        ELSE
            LET pr == Prior_prox(prior, TDivS(x, gamma), RMul(lamb, gamma), args)
            IN  Ret(TSub(x, TScale(gamma, pr.t)),
                    << Call("prox_conjugate", x, gamma, args) >> \o pr.calls)

\* Mutation of Prior.prox_conjugate: gamma * prox is added to x where the
\* code subtracts it.
Prior_prox_conjugate_plus(prior, x, gamma, args, kw) ==
    LET lamb == IF Len(kw) = 0 THEN One ELSE kw[1]
    IN  IF IsErr(x) THEN Ret(x, << >>)
        ELSE IF gamma = Zero THEN Ret(Raise("ZeroDivisionError"), << >>)
        ELSE
            LET pr == Prior_prox(prior, TDivS(x, gamma), RDiv(lamb, gamma), args)
            IN  Ret(TAdd(x, TScale(gamma, pr.t)),
                    << Call("prox_conjugate", x, gamma, args) >> \o pr.calls)

\* Mutation of Prior.prox_conjugate: a prior that is only a denoiser (PnP
\* without a potential) refuses the call.
Prior_prox_conjugate_unsupported(prior, x, gamma, args, kw) ==
    LET lamb == IF Len(kw) = 0 THEN One ELSE kw[1]
    IN  IF IsErr(x) THEN Ret(x, << >>)
        ELSE IF prior.cls = "PnP" /\ prior.g = "None"
        THEN Ret(Raise("NotImplementedError"), << Call("prox_conjugate", x, gamma, args) >>)
        ELSE IF gamma = Zero THEN Ret(Raise("ZeroDivisionError"), << >>)
        ELSE
            LET pr == Prior_prox(prior, TDivS(x, gamma), RDiv(lamb, gamma), args)
            IN  Ret(TSub(x, TScale(gamma, pr.t)),
                    << Call("prox_conjugate", x, gamma, args) >> \o pr.calls)

\* Prior.prox_conjugate(self, x, gamma, *args, lamb=1): not overridden by any
\* class.  kw is the keyword part of the call: << >>, or << lamb >>.
\* lamb / gamma on Python numbers raises for gamma = 0.
Prior_prox_conjugate(prior, x, gamma, args, kw) ==
    LET lamb == IF Len(kw) = 0 THEN One ELSE kw[1]
    IN  IF IsErr(x) THEN Ret(x, << >>)
        ELSE IF gamma = Zero THEN Ret(Raise("ZeroDivisionError"), << >>)
        ELSE
            LET pr == Prior_prox(prior, TDivS(x, gamma), RDiv(lamb, gamma), args)
            IN  Ret(TSub(x, TScale(gamma, pr.t)),
                    << Call("prox_conjugate", x, gamma, args) >> \o pr.calls)

-----------------------------------------------------------------------------
(* deepinv/optim/data_fidelity.py (L2) and the physics it solves with *)

\* L2.prox_d(u, y, gamma) = (u + gamma y) / (1 + gamma)
L2_prox_d(u, y, gamma) ==
    TDivS(TAdd(u, TScale(gamma, y)), RAdd(One, gamma))

\* DataFidelity.prox_d_conjugate(u, y, gamma, lamb) =
\*     u - gamma * prox_d(u / gamma, y, lamb / gamma)
prox_d_conjugate(u, y, gamma, lamb) ==
    TSub(u, TScale(gamma, L2_prox_d(TDivS(u, gamma), y, RDiv(lamb, gamma))))

\* L2.prox(x, y, physics, gamma) = physics.prox_l2(x, y, gamma), the solution
\* z of (A^T A + I/gamma) z = A^T y + x/gamma.  On constant vectors A^T A is
\* the multiplication by the number ata.
DataFidelity_prox(x, y, physics, gamma) ==
    LET rhs == TAdd(Apply(Adjoint(physics), y), TDivS(x, gamma))
        ata == Apply(Adjoint(physics), Apply(physics, Tn((IF IsErr(x) THEN 1 ELSE x.n), One)))
    IN  IF IsErr(rhs) THEN rhs
        ELSE IF IsErr(ata) THEN ata
        ELSE TDivS(rhs, RAdd(ata.v, RDiv(One, gamma)))

-----------------------------------------------------------------------------
(* The cost function handed to the iterator *)

\* F_fn(x, ...): an external callable; here the sum of the entries of x.
F_fn(x) == IF IsErr(x) THEN x ELSE Tn(1, RMul(RInt(x.n), x.v))

-----------------------------------------------------------------------------
(* deepinv/optim/optim_iterators/primal_dual_CP.py *)

\* The result of a forward call: the new X (est, cost), or the exception.
Out(est, cost, err, calls) == [est |-> est, cost |-> cost, err |-> err, calls |-> calls]

\* Mutation of fStepCP.forward: with g_first the step of the data-fidelity
\* prox is stepsize alone, lambda is dropped.
fStepCP_forward_no_lambda(it, x, w, y, physics, cur_params) ==
    IF it.g_first THEN
        LET p == TSub(x, TScale(cur_params["stepsize"], w))
            gamma == cur_params["stepsize"]
        IN  IF IsErr(p) THEN Ret(p, << >>)
            ELSE Ret(DataFidelity_prox(p, y, physics, gamma),
                     << Call("data_fidelity.prox", p, gamma, << >>) >>)
    ELSE
        LET p == TAdd(x, TScale(cur_params["sigma"], w))
        IN  IF IsErr(p) THEN Ret(p, << >>)
            ELSE Ret(prox_d_conjugate(p, y, cur_params["sigma"], cur_params["lambda"]),
                     << Call("data_fidelity.prox_d_conjugate", p, cur_params["sigma"],
                             << cur_params["lambda"] >>) >>)

\* fStepCP.forward(self, x, w, y, physics, cur_params)
fStepCP_forward(it, x, w, y, physics, cur_params) ==
    IF it.g_first THEN
        LET p == TSub(x, TScale(cur_params["stepsize"], w))
            gamma == RMul(cur_params["stepsize"], cur_params["lambda"])
        IN  IF IsErr(p) THEN Ret(p, << >>)
            ELSE Ret(DataFidelity_prox(p, y, physics, gamma),
                     << Call("data_fidelity.prox", p, gamma, << >>) >>)
    ELSE
        LET p == TAdd(x, TScale(cur_params["sigma"], w))
        IN  IF IsErr(p) THEN Ret(p, << >>)
            ELSE Ret(prox_d_conjugate(p, y, cur_params["sigma"], cur_params["lambda"]),
                     << Call("data_fidelity.prox_d_conjugate", p, cur_params["sigma"],
                             << cur_params["lambda"] >>) >>)

\* Mutation of gStepCP.forward: p is computed in place in x (x.add_, x.sub_),
\* so that the prior is handed the caller's tensor.
gStepCP_forward_in_place(it, x, w, cur_prior, cur_params) ==
    IF it.g_first THEN
        LET p == Named(TAdd(x, TScale(cur_params["sigma"], w)), x.ref)
        IN  Prior_prox_conjugate(cur_prior, p, cur_params["sigma"],
                                 << cur_params["g_param"] >>, << >>)
    ELSE
        LET p == Named(TSub(x, TScale(cur_params["stepsize"], w)), x.ref)
        IN  Prior_prox(cur_prior, p, cur_params["stepsize"], << cur_params["g_param"] >>)

\* gStepCP.forward(self, x, w, cur_prior, cur_params)
gStepCP_forward(it, x, w, cur_prior, cur_params) ==
    IF it.g_first THEN
        LET p == TAdd(x, TScale(cur_params["sigma"], w))
        IN  Prior_prox_conjugate(cur_prior, p, cur_params["sigma"],
                                 << cur_params["g_param"] >>, << >>)
    ELSE
        LET p == TSub(x, TScale(cur_params["stepsize"], w))
        IN  Prior_prox(cur_prior, p, cur_params["stepsize"], << cur_params["g_param"] >>)

\* K = lambda x: cur_params["K"](x) if "K" in cur_params.keys() else x
CP_K(cur_params, x) ==
    IF "K" \in DOMAIN cur_params THEN Apply(cur_params["K"], x) ELSE x

\* Mutation of K_adjoint: the operator is applied only when "K" was supplied
\* as well, the two defaults are tied together.
CP_K_adjoint_tied(cur_params, x) ==
    IF "K" \in DOMAIN cur_params /\ "K_adjoint" \in DOMAIN cur_params
    THEN Apply(cur_params["K_adjoint"], x) ELSE x

\* K_adjoint = lambda x: cur_params["K_adjoint"](x) if "K_adjoint" in cur_params.keys() else x
CP_K_adjoint(cur_params, x) ==
    IF "K_adjoint" \in DOMAIN cur_params THEN Apply(cur_params["K_adjoint"], x) ELSE x

\* F = self.F_fn(x, ...) if self.has_cost else None; fnargs are the
\* arguments the iterator passes after x.
CostOf(it, x, fnargs) ==
    IF it.has_cost THEN Ret(F_fn(x), << Call("F_fn", x, Zero, fnargs) >>)
    ELSE Ret(Raise("None"), << >>)

\* What forward hands back: {"est": est, "cost": F} (cost << >> is None), or
\* the exception that ended the call: that of the first of the values
\* computed, in the order computed, whose computation raised.
Finish(computed, est, F, calls) ==
    IF \E i \in 1..Len(computed) : IsErr(computed[i])
    THEN LET i == CHOOSE j \in 1..Len(computed) :
                      IsErr(computed[j]) /\ \A l \in 1..(j - 1) : ~IsErr(computed[l])
         IN  Out(<< >>, << >>, computed[i].err, calls)
    ELSE IF F.t.err \notin {"", "None"} THEN Out(<< >>, << >>, F.t.err, calls \o F.calls)
    ELSE Out(est, IF F.t.err = "None" THEN << >> ELSE << F.t >>, "", calls \o F.calls)

\* Mutation of the tail of CPIteration.forward: the estimate is returned in
\* the order its slots were computed, (u, x, z).
CP_finish_evaluation_order(it, x_prev, ru, rx) ==
    LET u == ru.t
        x == rx.t
        z == TAdd(x, TScale(it.beta, TSub(x, x_prev)))
        F == IF IsErr(z) THEN Ret(Raise("None"), << >>)
             ELSE CostOf(it, x, << "cur_prior", "cur_params", "y", "physics" >>)
    IN  Finish(<< u, x, z >>, << u, x, z >>, F, ru.calls \o rx.calls)

\* Mutation of the tail of CPIteration.forward: the cost is evaluated at the
\* extrapolated z.
CP_finish_cost_at_z(it, x_prev, ru, rx) ==
    LET u == ru.t
        x == rx.t
        z == TAdd(x, TScale(it.beta, TSub(x, x_prev)))
        F == IF IsErr(z) THEN Ret(Raise("None"), << >>)
             ELSE CostOf(it, z, << "cur_prior", "cur_params", "y", "physics" >>)
    IN  Finish(<< u, x, z >>, << x, z, u >>, F, ru.calls \o rx.calls)

\* Mutation of the tail of CPIteration.forward: the extrapolation steps back
\* towards the previous primal estimate, z = x + beta * (x_prev - x).
CP_finish_extrapolation_sign(it, x_prev, ru, rx) ==
    LET u == ru.t
        x == rx.t
        z == TAdd(x, TScale(it.beta, TSub(x_prev, x)))
        F == IF IsErr(z) THEN Ret(Raise("None"), << >>)
             ELSE CostOf(it, x, << "cur_prior", "cur_params", "y", "physics" >>)
    IN  Finish(<< u, x, z >>, << x, z, u >>, F, ru.calls \o rx.calls)

\* the tail of CPIteration.forward, once u (in ru) and x (in rx) are computed
CP_finish(it, x_prev, ru, rx) ==
    LET u == ru.t
        x == rx.t
        z == TAdd(x, TScale(it.beta, TSub(x, x_prev)))
        F == IF IsErr(z) THEN Ret(Raise("None"), << >>)
             ELSE CostOf(it, x, << "cur_prior", "cur_params", "y", "physics" >>)
    IN  Finish(<< u, x, z >>, << x, z, u >>, F, ru.calls \o rx.calls)

\* Mutation of CPIteration.forward: the second step is handed the dual of the
\* previous iterate where the code hands it the dual just computed.
CPIteration_forward_stale_u(it, X, cur_prior, cur_params, y, physics) ==
    IF Len(X.est) # 3 THEN Out(<< >>, << >>, "ValueError", << >>)
    ELSE
        LET x_prev == Named(X.est[1], "X.est[1]")
            z_prev == Named(X.est[2], "X.est[2]")
            u_prev == Named(X.est[3], "X.est[3]")
            first == IF it.g_first
                THEN gStepCP_forward(it, u_prev, CP_K(cur_params, z_prev), cur_prior, cur_params)
                ELSE fStepCP_forward(it, u_prev, CP_K(cur_params, z_prev), y, physics, cur_params)
        IN  The({ The({ CP_finish(it, x_prev, ru, rx) :
                        rx \in { IF IsErr(ru.t) THEN Ret(ru.t, << >>)
                                 ELSE IF it.g_first
                                 THEN fStepCP_forward(it, x_prev, CP_K_adjoint(cur_params, u_prev),
                                                      y, physics, cur_params)
                                 ELSE gStepCP_forward(it, x_prev, CP_K_adjoint(cur_params, u_prev),
                                                      cur_prior, cur_params) } }) :
                  ru \in { first } })

\* CPIteration.forward(self, X, cur_prior, cur_params, y, physics)
CPIteration_forward(it, X, cur_prior, cur_params, y, physics) ==
    IF Len(X.est) # 3 THEN Out(<< >>, << >>, "ValueError", << >>)
    ELSE
        LET x_prev == Named(X.est[1], "X.est[1]")
            z_prev == Named(X.est[2], "X.est[2]")
            u_prev == Named(X.est[3], "X.est[3]")
            first == IF it.g_first
                THEN gStepCP_forward(it, u_prev, CP_K(cur_params, z_prev), cur_prior, cur_params)
                ELSE fStepCP_forward(it, u_prev, CP_K(cur_params, z_prev), y, physics, cur_params)
        IN  The({ The({ CP_finish(it, x_prev, ru, rx) :
                        rx \in { IF IsErr(ru.t) THEN Ret(ru.t, << >>)
                                 ELSE IF it.g_first
                                 THEN fStepCP_forward(it, x_prev, CP_K_adjoint(cur_params, ru.t),
                                                      y, physics, cur_params)
                                 ELSE gStepCP_forward(it, x_prev, CP_K_adjoint(cur_params, ru.t),
                                                      cur_prior, cur_params) } }) :
                  ru \in { first } })

-----------------------------------------------------------------------------
(* examples/plug-and-play/demo_PnP_custom_optim.py *)

\* Mutation of fStepCV.forward: the step of the conjugate prox is read from
\* the key "stepsize", the one its docstring names.
fStepCV_forward_stepsize(z, y, cur_params) ==
    IF IsErr(z) THEN Ret(z, << >>)
    ELSE
    Ret(prox_d_conjugate(z, y, cur_params["stepsize"], cur_params["lambda"]),
        << Call("data_fidelity.prox_d_conjugate", z, cur_params["stepsize"],
                << cur_params["lambda"] >>) >>)

\* fStepCV.forward(self, z, y, cur_params)
fStepCV_forward(z, y, cur_params) ==
    IF IsErr(z) THEN Ret(z, << >>)
    ELSE
    Ret(prox_d_conjugate(z, y, cur_params["sigma"], cur_params["lambda"]),
        << Call("data_fidelity.prox_d_conjugate", z, cur_params["sigma"],
                << cur_params["lambda"] >>) >>)

\* gStepCV.forward(self, x, Atu, cur_prior, cur_params)
gStepCV_forward(x, Atu, cur_prior, cur_params) ==
    Prior_prox(cur_prior, TSub(x, TScale(cur_params["stepsize"], Atu)),
               cur_params["stepsize"], << cur_params["g_param"] >>)

\* the tail of CVIteration.forward, once x (in rx) and u (in ru) are computed
CV_finish(it, rx, ru) ==
    LET x == rx.t
        u == ru.t
        F == IF IsErr(u) THEN Ret(Raise("None"), << >>)
             ELSE CostOf(it, x, << "cur_params", "y", "physics" >>)
    IN  Finish(<< x, u >>, << x, u >>, F, rx.calls \o ru.calls)

\* Mutation of CVIteration.forward: the dual step is taken from the previous
\* dual, at u_prev + sigma * A(2 x - x_prev), as a dual ascent would.
CVIteration_forward_dual_ascent(it, X, cur_prior, cur_params, y, physics) ==
    IF Len(X.est) # 2 THEN Out(<< >>, << >>, "ValueError", << >>)
    ELSE
        LET x_prev == X.est[1]
            u_prev == X.est[2]
        IN  The({ The({ CV_finish(it, rx, ru) :
                        ru \in { IF IsErr(rx.t) THEN Ret(rx.t, << >>)
                                 ELSE fStepCV_forward(
                                        TAdd(u_prev, TScale(cur_params["sigma"],
                                             Apply(physics, TSub(TScale(Two, rx.t), x_prev)))),
                                        y, cur_params) } }) :
                  rx \in { gStepCV_forward(x_prev, Apply(Adjoint(physics), u_prev),
                                           cur_prior, cur_params) } })

\* CVIteration.forward(self, X, cur_prior, cur_params, y, physics)
CVIteration_forward(it, X, cur_prior, cur_params, y, physics) ==
    IF Len(X.est) # 2 THEN Out(<< >>, << >>, "ValueError", << >>)
    ELSE
        LET x_prev == X.est[1]
            u_prev == X.est[2]
        IN  The({ The({ CV_finish(it, rx, ru) :
                        ru \in { IF IsErr(rx.t) THEN Ret(rx.t, << >>)
                                 ELSE fStepCV_forward(
                                        Apply(physics, TSub(TScale(Two, rx.t), x_prev)),
                                        y, cur_params) } }) :
                  rx \in { gStepCV_forward(x_prev, Apply(Adjoint(physics), u_prev),
                                           cur_prior, cur_params) } })

-----------------------------------------------------------------------------
(* Inputs *)

\* Bounds of the model.
MaxIter == 2
PrimalDim == 2
MaxMagnitude == 64

\* number of entries of a measurement: a single one, or more than the signal
MeasDims == {1, PrimalDim + 1}

\* the dict cur_params: the four numbers, and K / K_adjoint when supplied
MkParams(stepsize, sigma, lambda, g_param, hasK, hasKadj, A) ==
    [key \in {"stepsize", "sigma", "lambda", "g_param"} |->
        CASE key = "stepsize" -> stepsize
          [] key = "sigma" -> sigma
          [] key = "lambda" -> lambda
          [] key = "g_param" -> g_param]
    @@ (IF hasK THEN "K" :> A ELSE << >>)
    @@ (IF hasKadj THEN "K_adjoint" :> Adjoint(A) ELSE << >>)

\* (stepsize, sigma, lambda) with sigma * stepsize <= 1
StepChoices == { << One, One, One >>, << Half, Two, Rat(3, 1) >> }

ParamChoices(A) ==
    { MkParams(c[1], c[2], c[3], One, hasK, hasKadj, A) :
        c \in StepChoices, hasK \in BOOLEAN, hasKadj \in BOOLEAN }

\* the iterators: OptimIterator's attributes g_first, beta, has_cost
Iterators ==
    [family : {"CP", "CV"}, g_first : BOOLEAN, has_cost : BOOLEAN, beta : {One, Half}]

\* the priors that can be constructed
Priors ==
    { Prior__init__("l1"), Prior__init__("None"), PnP__init__("soft", "None"),
      RED__init__("soft", "None"), Tikhonov__init__ }

\* A problem: the physics A, the observation y = A(1), and the shape of the
\* dual slot of the initial estimate.
Setup(A, nu) == [physics |-> A, y |-> Apply(A, Tn(PrimalDim, One)), nu |-> nu]

Setups ==
    { Setup(LinOp("scale", PrimalDim, PrimalDim, Two), PrimalDim) }
    \cup { Setup(LinOp("ones", PrimalDim, m, One), m) : m \in MeasDims }
    \cup { Setup(LinOp("ones", PrimalDim, m, One), PrimalDim) : m \in MeasDims }

\* the initial estimate: (x, z, u) for Chambolle-Pock, (x, u) for Condat-Vu
InitEst(family, nu) ==
    IF family = "CP"
    THEN << Tn(PrimalDim, One), Tn(PrimalDim, Two), Tn(nu, Half) >>
    ELSE << Tn(PrimalDim, One), Tn(nu, Half) >>

-----------------------------------------------------------------------------
(* The state machine *)

VARIABLES
    it,       \* the iterator (family, g_first, has_cost, beta)
    prior,    \* the prior instance
    y,        \* the observation
    physics,  \* the forward operator
    X,        \* the current iterate {"est": ..., "cost": ...}
    k,        \* transitions made
    op,       \* the last operation
    inp,      \* its inputs
    out       \* what it returned or raised

vars == << it, prior, y, physics, X, k, op, inp, out >>

NoInp == [X |-> [est |-> << >>, cost |-> << >>], params |-> << >>]

Init ==
    /\ it \in Iterators
    /\ prior \in Priors
    /\ \E s \in Setups :
        /\ physics = s.physics
        /\ y = s.y
        /\ X = [est |-> InitEst(it.family, s.nu), cost |-> << >>]
    /\ k = 0
    /\ op = "init"
    /\ inp = NoInp
    /\ out = Out(<< >>, << >>, "", << >>)

\* the numbers of the estimate are within the magnitude the model computes with
Small(est) ==
    \A i \in 1..Len(est) : Abs(est[i].v[1]) <= MaxMagnitude /\ est[i].v[2] <= MaxMagnitude

\* one call of iteration(X, cur_prior, cur_params, y, physics); an exception
\* ends the solve and leaves X as it was
Transition(name, r, cur_params) ==
    /\ k' = k + 1
    /\ op' = name
    /\ inp' = [X |-> X, params |-> cur_params]
    /\ out' = r
    /\ X' = IF r.err = "" THEN [est |-> r.est, cost |-> r.cost] ELSE X
    /\ UNCHANGED << it, prior, y, physics >>

CPForward ==
    /\ it.family = "CP"
    /\ out.err = ""
    /\ k < MaxIter
    /\ Small(X.est)
    /\ \E cur_params \in ParamChoices(physics) :
        \E r \in { CPIteration_forward(it, X, prior, cur_params, y, physics) } :
            Transition("CP", r, cur_params)

CVForward ==
    /\ it.family = "CV"
    /\ out.err = ""
    /\ k < MaxIter
    /\ Small(X.est)
    /\ \E cur_params \in ParamChoices(physics) :
        \E r \in { CVIteration_forward(it, X, prior, cur_params, y, physics) } :
            Transition("CV", r, cur_params)

Next == CPForward \/ CVForward

Spec == Init /\ [][Next]_vars

-----------------------------------------------------------------------------
(* The priors on their own: construction, then calls of their methods *)

NoPrior == [cls |-> "none", g |-> "None", denoiser |-> "None", explicit_prior |-> FALSE]

\* arguments of the calls
MaxCalls == 1
CallPoints == { Tn(n, v) : n \in {1, PrimalDim}, v \in { One, Rat(-3, 2) } }
ProxGammas == { One, Half, Two, Rat(-1, 2), RInt(-1) }
ConjGammas == { One, Half, RInt(-2), Zero }
ExtraArgs == { << >>, << Half >> }
LambKw == { << >>, << Half >> }

InitPrior ==
    /\ prior = NoPrior
    /\ it = [family |-> "none", g_first |-> FALSE, has_cost |-> FALSE, beta |-> One]
    /\ physics = LinOp("scale", PrimalDim, PrimalDim, One)
    /\ y = Tn(PrimalDim, Zero)
    /\ X = [est |-> << >>, cost |-> << >>]
    /\ k = 0
    /\ op = "init"
    /\ inp = [x |-> Tn(1, Zero), gamma |-> Zero, args |-> << >>, kw |-> << >>]
    /\ out = Ret(Tn(1, Zero), << >>)

Constructed(p) ==
    /\ prior = NoPrior
    /\ prior' = p
    /\ op' = "construct"
    /\ UNCHANGED << it, y, physics, X, k, inp, out >>

\* Prior(g=g)
ConstructPrior == \E g \in {"None", "l1"} : Constructed(Prior__init__(g))

\* PnP(denoiser, g=g)
ConstructPnP == \E g \in {"None", "l1"} : Constructed(PnP__init__("soft", g))

\* RED(denoiser, g=g)
ConstructRED == \E g \in {"None", "l1"} : Constructed(RED__init__("soft", g))

\* Tikhonov()
ConstructTikhonov == Constructed(Tikhonov__init__)

\* the keyword arguments ScorePrior is constructed with
ScoreKw == { << >>, << "sigma_normalize", FALSE >>, << "sigma_normalize", TRUE >> }

\* ScorePrior(denoiser, **kw): the instance, or the exception and no instance
ConstructScorePrior ==
    /\ prior = NoPrior
    /\ \E kw \in ScoreKw :
        \E r \in { ScorePrior__init__("soft", kw) } :
            /\ prior' = IF "err" \in DOMAIN r THEN prior ELSE r
            /\ out' = IF "err" \in DOMAIN r THEN Ret(r, << >>) ELSE Ret(Tn(1, Zero), << >>)
            /\ inp' = [x |-> Tn(1, Zero), gamma |-> Zero, args |-> << >>, kw |-> kw]
    /\ op' = "ScorePrior"
    /\ UNCHANGED << it, y, physics, X, k >>

Called(name, x, gamma, args, kw, r) ==
    /\ prior # NoPrior
    /\ k < MaxCalls
    /\ k' = k + 1
    /\ op' = name
    /\ inp' = [x |-> x, gamma |-> gamma, args |-> args, kw |-> kw]
    /\ out' = r
    /\ UNCHANGED << it, prior, y, physics, X >>

\* prior.prox(x, gamma, *args)
CallProx ==
    \E x \in CallPoints, gamma \in ProxGammas, args \in ExtraArgs :
        \E r \in { Prior_prox(prior, x, gamma, args) } :
            Called("prox", x, gamma, args, << >>, r)

\* prior.prox_conjugate(x, gamma, *args) and prior.prox_conjugate(x, gamma, *args, lamb=lamb)
CallProxConjugate ==
    \E x \in CallPoints, gamma \in ConjGammas, args \in ExtraArgs, kw \in LambKw :
        \E r \in { Prior_prox_conjugate(prior, x, gamma, args, kw) } :
            Called("prox_conjugate", x, gamma, args, kw, r)

\* prior.grad(x, *args)
CallGrad ==
    \E x \in CallPoints, args \in ExtraArgs :
        \E r \in { Prior_grad(prior, x, args) } :
            Called("grad", x, Zero, args, << >>, r)

\* prior.g(x, *args): Tikhonov.g, or Prior.g
CallG ==
    \E x \in CallPoints, args \in ExtraArgs :
        \E r \in { IF prior.cls = "Tikhonov" THEN Tikhonov_g(x, args)
                    ELSE Prior_g(prior, x, args) } :
            Called("g", x, Zero, args, << >>, r)

\* prior(x, *args), that is prior.forward(x, *args)
CallForward ==
    \E x \in CallPoints, args \in ExtraArgs :
        \E r \in { Prior_forward(prior, x, args) } :
            Called("forward", x, Zero, args, << >>, r)

NextPrior ==
    \/ ConstructPrior
    \/ ConstructPnP
    \/ ConstructRED
    \/ ConstructTikhonov
    \/ CallProx
    \/ CallProxConjugate
    \/ CallGrad
    \/ CallG
    \/ ConstructScorePrior
    \/ CallForward

SpecPrior == InitPrior /\ [][NextPrior]_vars

-----------------------------------------------------------------------------
(* The unrolled model: unfolded_builder and its training *)

\* Bound on the optimizer steps taken.
MaxTrainSteps == 2

\* a schedule entry as given: one value for all iterations, or a list
Scalar(v) == [list |-> FALSE, vals |-> << v >>]
PerIter(vs) == [list |-> TRUE, vals |-> vs]

\* the entry as a sequence of max_iter values, one per iteration
Normalized(entry, max_iter) ==
    IF entry.list THEN entry.vals ELSE [i \in 1..max_iter |-> entry.vals[1]]

\* params_algo of the test: stepsize, g_param and lambda are lists of
\* max_iter values; "sigma" is the scalar added for Chambolle-Pock
ParamsAlgo(max_iter, with_sigma) ==
    [key \in {"stepsize", "g_param", "lambda"} |->
        PerIter([i \in 1..max_iter |-> IF key = "g_param" THEN Rat(1, 100) ELSE One])]
    @@ (IF with_sigma THEN "sigma" :> Scalar(One) ELSE << >>)

\* the lists trainable_params the model is built with
TrainableChoices ==
    { << >>, << "stepsize" >>, << "g_param", "stepsize" >>, << "lambda" >>,
      << "stepsize", "lambda" >>, << "g_param" >> }

Range(f) == { f[i] : i \in DOMAIN f }

\* the parameters of key, one per iteration, as named_parameters() lists them
ParametersOf(key, vals) ==
    [i \in 1..Len(vals) |->
        [name |-> << "params_algo", key, i - 1 >>, requires_grad |-> TRUE, value |-> vals[i]]]

RECURSIVE Flatten(_)
Flatten(seqs) == IF seqs = << >> THEN << >> ELSE Head(seqs) \o Flatten(Tail(seqs))

\* Mutation of unfolded_builder: every entry of params_algo is promoted to
\* trainable parameters.
unfolded_builder_all_trainable(params_algo, trainable_params, max_iter) ==
    LET keys == << "stepsize", "g_param", "lambda", "sigma" >>
        present == SelectSeq(keys, LAMBDA key : key \in DOMAIN params_algo)
    IN  [parameters |->
            Flatten([j \in 1..Len(present) |->
                ParametersOf(present[j], Normalized(params_algo[present[j]], max_iter))]),
         fixed |-> << >>,
         max_iter |-> max_iter]

\* unfolded_builder(name_algo, params_algo, trainable_params, max_iter, ...):
\* the entries named in trainable_params become parameters, one per
\* iteration; the others stay constants of the schedule.
unfolded_builder(params_algo, trainable_params, max_iter) ==
    LET promoted == SelectSeq(trainable_params, LAMBDA key : key \in DOMAIN params_algo)
        constant == DOMAIN params_algo \ Range(trainable_params)
    IN  [parameters |->
            Flatten([j \in 1..Len(promoted) |->
                ParametersOf(promoted[j], Normalized(params_algo[promoted[j]], max_iter))]),
         fixed |-> [key \in constant |-> Normalized(params_algo[key], max_iter)],
         max_iter |-> max_iter]

\* one step of the optimizer on model.parameters(): every parameter that
\* requires gradients moves against its gradient (here d times its position
\* in the list), nothing else changes
optimizer_step(model, lr, d) ==
    [model EXCEPT !.parameters =
        [i \in 1..Len(model.parameters) |->
            IF model.parameters[i].requires_grad
            THEN [model.parameters[i] EXCEPT
                    !.value = RSub(@, RMul(lr, RMul(d, RInt(i))))]
            ELSE model.parameters[i]]]

NoModel == [parameters |-> << >>, fixed |-> << >>, max_iter |-> 0]

InitUnrolled ==
    /\ it = [family |-> "none", g_first |-> FALSE, has_cost |-> FALSE, beta |-> One]
    /\ prior = PnP__init__("soft", "None")
    /\ physics = LinOp("scale", PrimalDim, PrimalDim, One)
    /\ y = Tn(PrimalDim, Zero)
    /\ X = [est |-> << >>, cost |-> << >>]
    /\ k = 0
    /\ op = "init"
    /\ inp = [params_algo |-> << >>, trainable_params |-> << >>, max_iter |-> 0]
    /\ out = NoModel

\* model_unfolded = unfolded_builder(name_algo, params_algo=..., trainable_params=...,
\* max_iter=...)
Build ==
    /\ op = "init"
    /\ \E max_iter \in 1..MaxIter, with_sigma \in BOOLEAN, trainable_params \in TrainableChoices :
        /\ inp' = [params_algo |-> ParamsAlgo(max_iter, with_sigma),
                   trainable_params |-> trainable_params, max_iter |-> max_iter]
        /\ out' = unfolded_builder(ParamsAlgo(max_iter, with_sigma), trainable_params, max_iter)
    /\ op' = "unfolded_builder"
    /\ UNCHANGED << it, prior, y, physics, X, k >>

\* one optimizer step of the training
TrainStep ==
    /\ op \in {"unfolded_builder", "train"}
    /\ k < MaxTrainSteps
    /\ \E d \in { RInt(-1), One } : out' = optimizer_step(out, Rat(1, 10), d)
    /\ k' = k + 1
    /\ op' = "train"
    /\ UNCHANGED << it, prior, y, physics, X, inp >>

NextUnrolled == Build \/ TrainStep

SpecUnrolled == InitUnrolled /\ [][NextUnrolled]_vars

-----------------------------------------------------------------------------
(* The fixed-point driver (iteration driver of section 4.4), checked under
   SpecDriver.  One solve: the iterator is invoked with the parameters of the
   schedule until the step budget max_iter is exhausted or the convergence
   check stops it; then the primal estimate is returned. *)

MaxBudget == 3

\* the convergence thresholds thres_conv a caller may pass
ThresConv == { Rat(1, 1000), Half, Two }

\* ||x - x_prev||_2 / ||x||_2 < thres for constant vectors of one shape: the
\* factor sqrt(n) cancels.  A zero x gives a ratio that is below no threshold.
RelChangeBelow(x_prev, x, thres) ==
    LET d == RAbs(RSub(x.v, x_prev.v))
        b == RMul(thres, RAbs(x.v))
    IN  /\ ~IsErr(x_prev) /\ ~IsErr(x)
        /\ x_prev.n = x.n
        /\ FracLess(d[1], d[2], b[1], b[2])

\* the convergence check after iteration number i (counted from 0) also on
\* the first iteration
check_conv_on_first(early_stop, i, x_prev, x, thres) ==
    LET checked == early_stop
    IN  [checked |-> checked, stop |-> checked /\ RelChangeBelow(x_prev, x, thres)]

\* the convergence check after iteration number i (counted from 0): skipped
\* when early stopping is off and on the first iteration
check_conv(early_stop, i, x_prev, x, thres) ==
    LET checked == early_stop /\ i > 0
    IN  [checked |-> checked, stop |-> checked /\ RelChangeBelow(x_prev, x, thres)]

\* the seed of the estimate: physics.apply_adjoint(y) in every slot, or the
\* slots a custom initializer builds
SeedEst(family, s, custom) ==
    IF custom THEN InitEst(family, s.nu)
    ELSE LET x0 == Apply(Adjoint(s.physics), s.y)
         IN  IF family = "CP" THEN << x0, x0, x0 >> ELSE << x0, x0 >>

DriverIterators ==
    [family : {"CP", "CV"}, g_first : BOOLEAN, has_cost : {FALSE}, beta : {One}]

DriverPriors == { PnP__init__("soft", "None"), Tikhonov__init__ }

InitDriver ==
    /\ it \in DriverIterators
    /\ prior \in DriverPriors
    /\ \E s \in Setups, custom \in BOOLEAN :
        /\ physics = s.physics
        /\ y = s.y
        /\ X = [est |-> SeedEst(it.family, s, custom), cost |-> << >>]
        /\ \A i \in 1..Len(X.est) : ~IsErr(X.est[i])
    /\ k = 0
    /\ op = "run"
    /\ \E max_iter \in 1..MaxBudget, early_stop \in BOOLEAN, thres \in ThresConv,
          c \in StepChoices :
        inp = [max_iter |-> max_iter, early_stop |-> early_stop, thres_conv |-> thres,
               params |-> MkParams(c[1], c[2], c[3], One, FALSE, FALSE, physics)]
    /\ out = [checked |-> FALSE, stop |-> FALSE, x_prev |-> X.est[1], err |-> ""]

\* one turn of the loop: X_prev = X; X = iterator(X_prev, ...); the check.
\* An exception of the iterator leaves the loop.
Iterate ==
    /\ op = "run"
    /\ k < inp.max_iter
    /\ \E r \in { IF it.family = "CP"
                  THEN CPIteration_forward(it, X, prior, inp.params, y, physics)
                  ELSE CVIteration_forward(it, X, prior, inp.params, y, physics) } :
        IF r.err # ""
        THEN /\ op' = "raised"
             /\ out' = [checked |-> FALSE, stop |-> FALSE, x_prev |-> X.est[1],
                        err |-> r.err]
             /\ k' = k + 1
             /\ UNCHANGED << it, prior, y, physics, X, inp >>
        ELSE \E c \in { check_conv(inp.early_stop, k, X.est[1], r.est[1],
                                   inp.thres_conv) } :
             /\ X' = [est |-> r.est, cost |-> r.cost]
             /\ k' = k + 1
             /\ out' = [checked |-> c.checked, stop |-> c.stop, x_prev |-> X.est[1],
                        err |-> ""]
             /\ op' = IF c.stop THEN "stopped" ELSE "run"
             /\ UNCHANGED << it, prior, y, physics, inp >>

\* the loop is over: the driver returns the estimate
ReturnEstimate ==
    /\ op = "stopped" \/ (op = "run" /\ k = inp.max_iter)
    /\ op' = "done"
    /\ UNCHANGED << it, prior, y, physics, X, k, inp, out >>

NextDriver == Iterate \/ ReturnEstimate

\* Iterate can be taken: its guard.  The iterator call always returns or
\* raises, so this is ENABLED <<Iterate>>_vars.
IteratePending == op = "run" /\ k < inp.max_iter

\* The solve is sequential code that nothing blocks: a turn that can be taken
\* is taken.  The second conjunct is WF_vars(Iterate) with its ENABLED written
\* out as IteratePending.
DriverFairness ==
    /\ WF_vars(ReturnEstimate)
    /\ ([]<>(~IteratePending) \/ []<><<Iterate>>_vars)

SpecDriver == InitDriver /\ [][NextDriver]_vars /\ DriverFairness

-----------------------------------------------------------------------------
(* Chambolle-Pock steps from a grid of estimates, checked under SpecCPGrid:
   the estimate (x, z, u) is whatever the caller's custom initializer built. *)

GridPrimals == { Half, One }
GridDuals == { RInt(-1), Half, One }

InitCPGrid ==
    /\ it \in [family : {"CP"}, g_first : BOOLEAN, has_cost : {FALSE}, beta : {One, Half}]
    /\ prior = PnP__init__("soft", "None")
    /\ \E s \in Setups, x \in GridPrimals, z \in GridPrimals, u \in GridDuals :
        /\ physics = s.physics
        /\ y = s.y
        /\ X = [est |-> << Tn(PrimalDim, x), Tn(PrimalDim, z), Tn(s.nu, u) >>,
                cost |-> << >>]
    /\ k = 0
    /\ op = "init"
    /\ inp = NoInp
    /\ out = Out(<< >>, << >>, "", << >>)

\* the first step from the initial estimate
CPGridStep == k = 0 /\ CPForward

SpecCPGrid == InitCPGrid /\ [][CPGridStep]_vars

-----------------------------------------------------------------------------
(* Properties of the iterators, checked under Spec *)

\* the step just made: its family, the estimate and the parameters it was given
StepOf(family) == op = family
Returned == out.err = ""
AnyErr(ts) == \E i \in 1..Len(ts) : IsErr(ts[i])

\* the step returned ts if none of them is an exception, and raised otherwise
ReturnsExactly(ts) ==
    IF AnyErr(ts) THEN out.err # "" ELSE out.err = "" /\ out.est = ts

\* u + sigma * K(z), with K spelled out from the parameters
DualPoint(est, p) ==
    TAdd(est[3], TScale(p["sigma"], IF "K" \in DOMAIN p THEN Apply(p["K"], est[2]) ELSE est[2]))

\* x - stepsize * K_adjoint(u_new), with K_adjoint spelled out from the parameters
PrimalPoint(est, p, u_new) ==
    TSub(est[1], TScale(p["stepsize"],
         IF "K_adjoint" \in DOMAIN p THEN Apply(p["K_adjoint"], u_new) ELSE u_new))

\* x_new + beta * (x_new - x)
Extrapolated(x_new, x) == TAdd(x_new, TScale(it.beta, TSub(x_new, x)))

\* the Chambolle-Pock step with the data-fidelity term first, written out
C1_Expected(est, p) ==
    LET u_new == prox_d_conjugate(DualPoint(est, p), y, p["sigma"], p["lambda"])
        x_new == Prior_prox(prior, PrimalPoint(est, p, u_new), p["stepsize"],
                            << p["g_param"] >>).t
    IN  << x_new, Extrapolated(x_new, est[1]), u_new >>

\* C1: with g_first = False a Chambolle-Pock step on (x, z, u) returns
\* (x_new, z_new, u_new) where u_new = prox_d_conjugate(u + sigma K(z), y,
\* sigma, lamb = lambda), x_new = prior.prox(x - stepsize K_adjoint(u_new),
\* stepsize, g_param) uses the dual just computed, and z_new = x_new +
\* beta (x_new - x) uses the previous primal x; it raises exactly when one of
\* these computations raises.
C1_StepDataFidelityFirst ==
    (StepOf("CP") /\ ~it.g_first) => ReturnsExactly(C1_Expected(inp.X.est, inp.params))

\* a second step with the data-fidelity term first has returned, from an
\* iterate whose z differs from its x, to an estimate whose dual has moved
C1_Witness ==
    /\ StepOf("CP") /\ ~it.g_first /\ Returned /\ k = 2
    /\ inp.X.est[2] # inp.X.est[1]
    /\ out.est[3] # inp.X.est[3]
    /\ out.est[2] # out.est[1]

\* an operand fits a slot of n entries: it has n entries, or one that is
\* broadcast
Fits(n, t) == ~IsErr(t) /\ t.n \in {1, n}

\* every operand the step combines into a slot already has that slot's shape
\* or is broadcast to it
C2_Compatible ==
    LET e == inp.X.est
        p == inp.params
    IN  IF StepOf("CP")
        THEN /\ Fits(e[3].n, IF "K" \in DOMAIN p THEN Apply(p["K"], e[2]) ELSE e[2])
             /\ Fits(e[1].n, IF "K_adjoint" \in DOMAIN p
                             THEN Apply(p["K_adjoint"], Tn(e[3].n, One))
                             ELSE Tn(e[3].n, One))
             /\ IF it.g_first THEN Fits(e[1].n, Apply(Adjoint(physics), y))
                ELSE Fits(e[3].n, y)
        ELSE /\ Fits(e[1].n, Apply(Adjoint(physics), e[2]))
             /\ Apply(physics, Tn(e[1].n, One)).n = e[2].n
             /\ Fits(e[2].n, y)

SameShapes ==
    /\ Len(out.est) = Len(inp.X.est)
    /\ \A i \in 1..Len(out.est) : out.est[i].n = inp.X.est[i].n

\* C2 as stated: every Chambolle-Pock or Condat-Vu step that returns, returns
\* an estimate of the arity of its input whose slots have the shapes of the
\* input's slots, whatever g_first and with or without K / K_adjoint.
C2_ShapesKept ==
    ((StepOf("CP") \/ StepOf("CV")) /\ Returned) => SameShapes

\* C2 amended: every Chambolle-Pock or Condat-Vu step that returns keeps the
\* arity and the shape of every slot, provided the operands combined into a
\* slot have that slot's shape or are broadcast to it: K(z) (z when K is
\* absent) and y for the dual slot, K_adjoint of a dual (the dual itself when
\* K_adjoint is absent) for the primal slot; for Condat-Vu A_adjoint(u) for
\* the primal slot, A(x) and y for the dual slot.
C2_ShapesKeptWhenCompatible ==
    ((StepOf("CP") \/ StepOf("CV")) /\ Returned /\ C2_Compatible) => SameShapes

\* a step has returned on a dual that lives in measurement space, of another
\* shape than the primal, with K and K_adjoint supplied
C2_Witness ==
    /\ StepOf("CP") /\ Returned /\ C2_Compatible
    /\ inp.X.est[3].n # inp.X.est[1].n
    /\ "K" \in DOMAIN inp.params /\ "K_adjoint" \in DOMAIN inp.params

\* the points at which the two steps of a returned Chambolle-Pock step called
\* their proximity operators
FirstCallAt ==
    CallsTo(out.calls, IF it.g_first THEN "prox_conjugate"
                       ELSE "data_fidelity.prox_d_conjugate")[1].at
SecondCallAt ==
    CallsTo(out.calls, IF it.g_first THEN "data_fidelity.prox" ELSE "prox")[1].at

\* C3: in a Chambolle-Pock step K is the identity when "K" is not a key of
\* cur_params and cur_params["K"] otherwise, K_adjoint is the identity when
\* "K_adjoint" is not a key and cur_params["K_adjoint"] otherwise, each
\* decided by its own key, for both values of g_first: the first proximity
\* operator is called at u + sigma K(z), the second at x - stepsize
\* K_adjoint(u_new).
C3_OperatorDefaults ==
    (StepOf("CP") /\ Returned) =>
        /\ FirstCallAt = DualPoint(inp.X.est, inp.params)
        /\ SecondCallAt = PrimalPoint(inp.X.est, inp.params, out.est[3])

\* a step has returned with K_adjoint supplied and K left out, and its dual
\* is not one K_adjoint leaves alone
C3_Witness ==
    /\ StepOf("CP") /\ Returned
    /\ "K_adjoint" \in DOMAIN inp.params /\ "K" \notin DOMAIN inp.params
    /\ Apply(inp.params["K_adjoint"], out.est[3]) # out.est[3]

\* C4: when has_cost is False a step returns cost None and F_fn is not called;
\* when has_cost is True the cost returned is F_fn at the new primal estimate
\* of that step, the one call of F_fn the step makes.
C4_Cost ==
    (StepOf("CP") \/ StepOf("CV")) =>
        IF it.has_cost
        THEN Returned =>
                /\ out.cost = << F_fn(out.est[1]) >>
                /\ Len(CallsTo(out.calls, "F_fn")) = 1
                /\ CallsTo(out.calls, "F_fn")[1].at = out.est[1]
        ELSE /\ out.cost = << >>
             /\ CallsTo(out.calls, "F_fn") = << >>

\* a Chambolle-Pock step with a cost has returned, and the cost at its x is
\* neither that at the previous x nor that at z
C4_Witness ==
    /\ StepOf("CP") /\ Returned /\ it.has_cost
    /\ out.cost # << >>
    /\ out.cost[1] # F_fn(out.est[2])
    /\ out.cost[1] # F_fn(inp.X.est[1])

\* the Chambolle-Pock step with the prior first, written out
C5_Expected(est, p) ==
    LET u_new == Prior_prox_conjugate(prior, DualPoint(est, p), p["sigma"],
                                      << p["g_param"] >>, << >>).t
        x_new == DataFidelity_prox(PrimalPoint(est, p, u_new), y, physics,
                                   RMul(p["stepsize"], p["lambda"]))
    IN  << x_new, Extrapolated(x_new, est[1]), u_new >>

\* C5: with g_first = True a Chambolle-Pock step returns (x_new, z_new,
\* u_new) where u_new = prior.prox_conjugate(u + sigma K(z), sigma, g_param),
\* x_new = data_fidelity.prox(x - stepsize K_adjoint(u_new), y, physics,
\* stepsize lambda) and z_new = x_new + beta (x_new - x); it raises exactly
\* when one of these computations raises.
C5_StepPriorFirst ==
    (StepOf("CP") /\ it.g_first) => ReturnsExactly(C5_Expected(inp.X.est, inp.params))

\* a second step with the prior first has returned, with lambda other than 1
C5_Witness ==
    /\ StepOf("CP") /\ it.g_first /\ Returned /\ k = 2
    /\ inp.params["lambda"] # One
    /\ out.est[3] # inp.X.est[3]
    /\ out.est[2] # out.est[1]

\* no prior but the base class without a potential
HasPotentialOrOverride == ~(prior.cls = "Prior" /\ prior.g = "None")

\* C8 as stated: the calls the gSteps make, prior.prox(p, stepsize, g_param)
\* and prior.prox_conjugate(p, sigma, g_param), are accepted by every prior
\* variant (explicit Prior, PnP, RED, Tikhonov): no step on such a prior ends
\* in a TypeError.
C8_ProxContract ==
    ((StepOf("CP") \/ StepOf("CV")) /\ HasPotentialOrOverride) => out.err # "TypeError"

\* C9 as stated: a Chambolle-Pock step with the prior first on a PnP prior
\* ends in an error and produces no new state.
C9_PnPConjugateFails ==
    (StepOf("CP") /\ it.g_first /\ prior.cls = "PnP") => (out.err # "" /\ X = inp.X)

\* C9 amended: a Chambolle-Pock step with the prior first on a PnP prior does
\* not fail for want of prox_conjugate: PnP inherits it, and when the step
\* returns its dual is p - sigma * denoiser(p / sigma, g_param) at p = u +
\* sigma K(z).  A step on a prior with no method to serve it, the base Prior
\* without potential, ends in an error at call time; a step that ends in an
\* error produces no new state.
C9_PnPConjugateByMoreau ==
    /\ (StepOf("CP") /\ it.g_first /\ prior.cls = "PnP") =>
            /\ out.err \notin {"TypeError", "NotImplementedError"}
            /\ Returned =>
                LET p == DualPoint(inp.X.est, inp.params)
                    sigma == inp.params["sigma"]
                IN  out.est[3] =
                        TSub(p, TScale(sigma, Denoise(TDivS(p, sigma), inp.params["g_param"])))
    /\ ((StepOf("CP") \/ StepOf("CV")) /\ ~HasPotentialOrOverride) => out.err # ""
    /\ ((StepOf("CP") \/ StepOf("CV")) /\ out.err # "") => X = inp.X

\* a step with the prior first has returned on a PnP prior and moved the dual
C9_Witness ==
    /\ StepOf("CP") /\ it.g_first /\ prior.cls = "PnP" /\ Returned
    /\ out.est[3] # inp.X.est[3]
    /\ Len(CallsTo(out.calls, "denoiser")) = 1

-----------------------------------------------------------------------------
(* Properties of the priors, checked under SpecPrior *)

\* the keyword lamb of the call made, 1 when it was not given
LambOf(kw) == IF kw = << >> THEN One ELSE kw[1]

\* C6: for every prior and gamma # 0, prox_conjugate(x, gamma, *args, lamb)
\* is x - gamma * prox(x / gamma, lamb / gamma, *args): the prior's own prox
\* is called once, at x / gamma with step lamb / gamma and the same extra
\* arguments, and lamb is 1 when not given.
C6_MoreauIdentity ==
    (op = "prox_conjugate" /\ inp.gamma # Zero) =>
        LET at == TDivS(inp.x, inp.gamma)
            step == RDiv(LambOf(inp.kw), inp.gamma)
        IN  /\ out.t = TSub(inp.x, TScale(inp.gamma,
                                          Prior_prox(prior, at, step, inp.args).t))
            /\ CallsTo(out.calls, "prox") = << Call("prox", at, step, inp.args) >>

\* prox_conjugate has returned a value on a PnP prior, called with a gamma
\* other than 1, an extra argument and no lamb
C6_Witness ==
    /\ op = "prox_conjugate" /\ prior.cls = "PnP"
    /\ inp.gamma \notin {Zero, One} /\ inp.kw = << >> /\ inp.args # << >>
    /\ ~IsErr(out.t) /\ out.t # inp.x

\* C7: for the Tikhonov prior, every x and every gamma > 0,
\* prox(x, gamma) + gamma * prox_conjugate(x / gamma, 1 / gamma) = x.
C7_MoreauRoundTrip ==
    (op = "prox" /\ prior.cls = "Tikhonov" /\ inp.gamma[1] > 0 /\ inp.args = << >>) =>
        LET conj == Prior_prox_conjugate(prior, TDivS(inp.x, inp.gamma),
                                         RDiv(One, inp.gamma), << >>, << >>).t
        IN  /\ ~IsErr(out.t)
            /\ TAdd(out.t, TScale(inp.gamma, conj)) = inp.x

\* Tikhonov's prox has returned at a nonzero x for a gamma other than 1
C7_Witness ==
    /\ op = "prox" /\ prior.cls = "Tikhonov" /\ inp.args = << >>
    /\ inp.gamma[1] > 0 /\ inp.gamma # One
    /\ ~IsErr(out.t) /\ out.t.v # Zero

\* C10 as stated: no instance of the base Prior without a potential exists,
\* so no prox or grad call reaches the differentiation of a null potential.
C10_NullPotentialRejected ==
    prior.cls = "Prior" => prior.g # "None"

\* C10 amended: Prior(g = None) is constructed, with explicit_prior False,
\* and is rejected at call time: each of its prox and grad calls raises
\* TypeError when the null potential is called, and so does prox_conjugate
\* unless it raised before reaching prox; a prior with a potential is
\* flagged explicit_prior.
C10_NullPotentialFailsAtCall ==
    /\ (prior.cls = "Prior" /\ prior.g = "None") =>
            /\ ~prior.explicit_prior
            /\ op \in {"prox", "grad"} => out.t.err = "TypeError"
            /\ op = "prox_conjugate" => out.t.err \in {"TypeError", "ZeroDivisionError"}
    /\ (prior.cls = "Prior" /\ prior.g # "None") => prior.explicit_prior

\* prox was called on a constructed Prior(g = None) and raised
C10_Witness ==
    /\ prior.cls = "Prior" /\ prior.g = "None"
    /\ op = "prox" /\ out.t.err = "TypeError"

\* the prior's prox is Prior.prox, the inner gradient descent
DefaultProx == prior.cls \in {"Prior", "RED"}

\* the iterates at which the call made evaluated the gradient, in order
GradPoints == [i \in 1..Len(CallsTo(out.calls, "grad")) |-> CallsTo(out.calls, "grad")[i].at]

\* z - stepsize_inter * (gamma * grad_g(z) + (z - x)) for the call made
InnerUpdate(z) ==
    TSub(z, TScale(StepsizeInter,
                   TAdd(TScale(inp.gamma, Prior_grad(prior, z, inp.args).t), TSub(z, inp.x))))

\* the iterate the i-th update produced
IterateAfter(i) == IF i = Len(GradPoints) THEN out.t ELSE GradPoints[i + 1]

\* C11: the sub-solve of the default Prior.prox starts from z = x, applies
\* z <- z - stepsize_inter (gamma grad_g(z) + (z - x)) with stepsize_inter = 1,
\* makes at most max_iter_inter = 50 updates, goes on while successive
\* iterates differ by tol_inter = 1e-3 or more, stops at the first update that
\* moves by less, and at the cap returns the last iterate without raising.
C11_InnerDescentCapped ==
    (op = "prox" /\ DefaultProx /\ ~IsErr(out.t)) =>
        LET n == Len(GradPoints)
        IN  /\ n >= 1 /\ n <= MaxIterInter
            /\ GradPoints[1] = inp.x
            /\ \A i \in 1..n : IterateAfter(i) = InnerUpdate(GradPoints[i])
            /\ \A i \in 1..(n - 1) :
                    ~NormLess(TSub(IterateAfter(i), GradPoints[i]), TolInter)
            /\ n < MaxIterInter =>
                    NormLess(TSub(out.t, GradPoints[n]), TolInter)

\* a sub-solve has made all its 50 updates, the last of them still moving by
\* more than the tolerance, and returned its last iterate
C11_Witness ==
    /\ op = "prox" /\ DefaultProx /\ ~IsErr(out.t)
    /\ Len(GradPoints) = MaxIterInter
    /\ ~NormLess(TSub(out.t, GradPoints[MaxIterInter]), TolInter)
    /\ out.t = InnerUpdate(GradPoints[MaxIterInter])

-----------------------------------------------------------------------------
(* Frame of a Chambolle-Pock step, checked under Spec *)

\* the tensors a log says were modified in place: the code's one in-place
\* operation is x.requires_grad_() of Prior.grad
InPlaceTargets(calls) ==
    { calls[i].at.ref : i \in { j \in 1..Len(calls) : calls[j].fn = "requires_grad_" } }

\* C12: a Chambolle-Pock step leaves the iterator, the prior, the observation
\* and the physics as they were; no tensor of the input estimate is modified
\* in place, not by the prior's prox and grad either, which work on tensors
\* the step has just created; the estimate returned consists of new tensors,
\* none of them a tensor of the input; and the caller's X is replaced by the
\* returned value, or kept when the step raised.
C12_StepIsPure ==
    [][ op' = "CP" =>
            /\ it' = it /\ prior' = prior /\ y' = y /\ physics' = physics
            /\ inp'.X = X
            /\ InPlaceTargets(out'.calls) \subseteq {"new"}
            /\ \A i \in 1..Len(out'.est) : out'.est[i].ref = "new"
            /\ X' = IF out'.err = "" THEN [est |-> out'.est, cost |-> out'.cost] ELSE X
      ]_vars

\* a second step has returned whose prior differentiated its potential, and
\* so switched requires_grad on, on a tensor of the step's own
C12_Witness ==
    /\ StepOf("CP") /\ Returned /\ k = 2
    /\ InPlaceTargets(out.calls) = {"new"}
    /\ out.est # inp.X.est

-----------------------------------------------------------------------------
(* Properties of the Tikhonov, PnP and RED priors, checked under SpecPrior *)

\* Bounds of the candidates z = (a / b) 1 the uniqueness is checked against.
MaxNumer == 8
MaxDenom == 4
Candidates(n) ==
    { Tn(n, Rat(a, b)) : a \in (-MaxNumer)..MaxNumer, b \in 1..MaxDenom }

\* z + gamma * grad(z) = x for the Tikhonov prior
SolvesProx(z, gamma, x) ==
    TAdd(z, TScale(gamma, Prior_grad(prior, z, << >>).t)) = x

\* C13: for the Tikhonov prior, every x and every gamma > -1, prox(x, gamma)
\* is x / (gamma + 1), grad(x) is x, and prox(x, gamma) is the one z with
\* z + gamma grad(z) = x.
C13_TikhonovClosedForms ==
    (prior.cls = "Tikhonov" /\ inp.args = << >>) =>
        /\ op = "grad" => out.t = inp.x
        /\ (op = "prox" /\ RAdd(inp.gamma, One)[1] > 0) =>
                /\ out.t = TDivS(inp.x, RAdd(inp.gamma, One))
                /\ SolvesProx(out.t, inp.gamma, inp.x)
                /\ \A z \in Candidates(inp.x.n) :
                        SolvesProx(z, inp.gamma, inp.x) => z = out.t

\* Tikhonov's prox has returned for a gamma between -1 and 0, at a nonzero x,
\* a value that is among the candidates
C13_Witness ==
    /\ op = "prox" /\ prior.cls = "Tikhonov" /\ inp.args = << >>
    /\ inp.gamma[1] < 0 /\ RAdd(inp.gamma, One)[1] > 0
    /\ inp.x.v # Zero
    /\ out.t \in Candidates(inp.x.n)

\* (1/2) ||x||_2^2 for x = v 1_n
HalfSquaredNorm(x) == RMul(Half, RMul(RInt(x.n), RMul(x.v, x.v)))

\* C14 as stated: Tikhonov.g(x) is (1/2) ||x||_2^2, the nonnegative number
\* whose square is the square of (1/2) ||x||_2^2.
C14_TikhonovPotential ==
    (op = "g" /\ prior.cls = "Tikhonov" /\ inp.args = << >>) =>
        out.t = Sqrt(RMul(HalfSquaredNorm(inp.x), HalfSquaredNorm(inp.x)))

\* C15: PnP.prox(x, gamma, sigma_denoiser) is denoiser(x, sigma_denoiser): the
\* denoiser is called once, at x and that noise level, whatever gamma and
\* whatever potential the prior was constructed with, and the potential is
\* not evaluated.
C15_PnPProxIsDenoiser ==
    (op = "prox" /\ prior.cls = "PnP" /\ inp.args # << >>) =>
        /\ out.t = Denoise(inp.x, inp.args[1])
        /\ CallsTo(out.calls, "denoiser") = << Call("denoiser", inp.x, inp.args[1], << >>) >>
        /\ CallsTo(out.calls, "g") = << >>
        /\ CallsTo(out.calls, "grad") = << >>

\* prox has returned on a PnP prior constructed with a potential, for a gamma
\* other than the noise level, and the denoiser moved x
C15_Witness ==
    /\ op = "prox" /\ prior.cls = "PnP" /\ prior.g # "None" /\ inp.args # << >>
    /\ inp.gamma # inp.args[1]
    /\ ~IsErr(out.t) /\ out.t # inp.x

\* gamma * (z - denoiser(z, sigma)) + (z - x) for the call made
REDDirection(z) ==
    TAdd(TScale(inp.gamma, TSub(z, Denoise(z, inp.args[1]))), TSub(z, inp.x))

\* C16: for the RED prior grad(x, sigma) is x - denoiser(x, sigma), and
\* prox(x, gamma, sigma) is the inner gradient descent of Prior.prox on that
\* grad: every update is z <- z - stepsize_inter (gamma (z - denoiser(z,
\* sigma)) + (z - x)) from z = x, grad and the denoiser are called with the
\* sigma given, once per update, and no potential is evaluated.
C16_REDGradAndProx ==
    (prior.cls = "RED" /\ inp.args # << >> /\ ~IsErr(out.t)) =>
        /\ op = "grad" =>
                /\ out.t = TSub(inp.x, Denoise(inp.x, inp.args[1]))
                /\ CallsTo(out.calls, "denoiser") =
                        << Call("denoiser", inp.x, inp.args[1], << >>) >>
        /\ op = "prox" =>
                LET n == Len(GradPoints)
                    den == CallsTo(out.calls, "denoiser")
                IN  /\ n >= 1 /\ GradPoints[1] = inp.x
                    /\ \A i \in 1..n :
                            /\ IterateAfter(i) =
                                    TSub(GradPoints[i],
                                         TScale(StepsizeInter, REDDirection(GradPoints[i])))
                            /\ CallsTo(out.calls, "grad")[i].args = inp.args
                    /\ Len(den) = n
                    /\ \A i \in 1..n : den[i] = Call("denoiser", GradPoints[i], inp.args[1], << >>)
        /\ op \in {"grad", "prox"} => CallsTo(out.calls, "g") = << >>

\* RED's prox has returned after more than one update, on a prior constructed
\* with a potential, and moved x
C16_Witness ==
    /\ op = "prox" /\ prior.cls = "RED" /\ prior.g # "None" /\ inp.args # << >>
    /\ ~IsErr(out.t) /\ out.t # inp.x
    /\ Len(GradPoints) > 1

\* C17 as stated: ScorePrior can be constructed with the option
\* sigma_normalize; constructed with sigma_normalize = False its evaluation
\* is x - D(x, sigma), otherwise it is (x - D(x, sigma)) / sigma^2.
C17_SigmaNormalize ==
    /\ op = "ScorePrior" => (~IsErr(out.t) /\ prior.cls = "ScorePrior")
    /\ (op = "forward" /\ prior.cls = "ScorePrior" /\ inp.args # << >>) =>
            out.t = TScale(RDiv(One, RMul(inp.args[1], inp.args[1])),
                           TSub(inp.x, Denoise(inp.x, inp.args[1])))

-----------------------------------------------------------------------------
(* Properties of the Condat-Vu iterator, checked under Spec *)

\* the Condat-Vu step written out, with z = 2 A(x_new) - A(x)
C18_Expected(est, p) ==
    LET x_new == Prior_prox(prior,
                            TSub(est[1], TScale(p["stepsize"], Apply(Adjoint(physics), est[2]))),
                            p["stepsize"], << p["g_param"] >>).t
        z == TSub(TScale(Two, Apply(physics, x_new)), Apply(physics, est[1]))
        u_new == prox_d_conjugate(z, y, p["sigma"], p["lambda"])
    IN  << x_new, u_new >>

-----------------------------------------------------------------------------
(* Properties of the unrolled model, checked under SpecUnrolled *)

Built == op \in {"unfolded_builder", "train"}

-----------------------------------------------------------------------------
(* The fixed-point driver, checked under SpecDriver *)

\* the solve has ended: the estimate was returned or an exception left the loop
Ended == op \in {"done", "raised"}

\* the loop was left by the convergence check
StoppedEarly == op \in {"stopped", "done"} /\ out.stop

\* C20: the fixed-point driver always terminates and makes at most max_iter
\* transitions; when it returns before the budget is exhausted, early stopping
\* is enabled and the relative change between the previous and the new primal
\* estimate is below the threshold; the check is never evaluated on the first
\* iteration, so an early stop comes at the second transition at the earliest.
C20_DriverTerminates ==
    /\ <>Ended
    /\ [](k <= inp.max_iter)
    /\ []((op \in {"stopped", "done"} /\ k < inp.max_iter) =>
            /\ inp.early_stop
            /\ out.stop
            /\ RelChangeBelow(out.x_prev, X.est[1], inp.thres_conv))
    /\ [](out.stop =>
            /\ inp.early_stop
            /\ RelChangeBelow(out.x_prev, X.est[1], inp.thres_conv))
    /\ [](out.checked => k >= 2)
    /\ [](StoppedEarly => k >= 2)

\* a solve returned after an early stop at the second transition, with budget left
C20_Witness ==
    /\ op = "done"
    /\ out.stop
    /\ k = 2
    /\ k < inp.max_iter
    /\ inp.early_stop

-----------------------------------------------------------------------------
(* The extrapolated slot of Chambolle-Pock, checked under SpecCPGrid *)

\* two tensors hold the same values in the same shape
SameValue(a, b) == a.n = b.n /\ a.v = b.v

\* the step returned the estimate it was given, slot by slot
MapsToItself ==
    /\ Len(out.est) = Len(inp.X.est)
    /\ \A i \in 1..Len(out.est) : SameValue(out.est[i], inp.X.est[i])

\* C21: after every Chambolle-Pock step z_new - x_new = beta * (x_new -
\* x_prev); in a state the step maps to itself, for any beta and either
\* g_first, the extrapolated slot equals the primal slot, z = x.
C21_ExtrapolationGap ==
    (StepOf("CP") /\ Returned) =>
        /\ SameValue(TSub(out.est[2], out.est[1]),
                     TScale(it.beta, TSub(out.est[1], inp.X.est[1])))
        /\ (MapsToItself => SameValue(out.est[2], out.est[1]))

\* a Chambolle-Pock step with beta other than 1 has mapped its estimate to itself
C21_Witness ==
    /\ StepOf("CP") /\ Returned
    /\ it.beta # One
    /\ MapsToItself

-----------------------------------------------------------------------------
(* The dual slot of Condat-Vu, checked under Spec *)

\* other values the previous dual could have had, in the same shape
AltDuals(u) == { Tn(u.n, v) : v \in { Zero, Rat(1, 4), Half, One } }

\* the same step taken from the same primal estimate and the dual u
StepFromDual(u) ==
    CVIteration_forward(it, [est |-> << inp.X.est[1], u >>, cost |-> inp.X.cost],
                        prior, inp.params, y, physics)

\* the step from the dual u returns the primal estimate this step returned
SamePrimalFrom(u) ==
    \E r \in { StepFromDual(u) } : r.err = "" /\ SameValue(r.est[1], out.est[1])

\* C22: in a Condat-Vu step the previous dual reaches the new state only
\* through the primal update: u_new is the conjugate prox at A(2 x_new -
\* x_prev), without u_prev added and without a factor sigma, so every
\* previous dual that leads to the same x_new leads to the same u_new.
C22_DualFromPrimalsOnly ==
    (StepOf("CV") /\ Returned) =>
        /\ out.est[2] = prox_d_conjugate(
                Apply(physics, TSub(TScale(Two, out.est[1]), inp.X.est[1])),
                y, inp.params["sigma"], inp.params["lambda"])
        /\ \A u \in AltDuals(inp.X.est[2]) :
              \A r \in { StepFromDual(u) } :
                (r.err = "" /\ SameValue(r.est[1], out.est[1]))
                    => SameValue(r.est[2], out.est[2])

\* a Condat-Vu step with sigma other than 1 has returned a nonzero dual, and
\* another previous dual leads to the same x_new
C22_Witness ==
    /\ StepOf("CV") /\ Returned
    /\ inp.params["sigma"] # One
    /\ out.est[2].v # Zero
    /\ \E u \in AltDuals(inp.X.est[2]) :
          ~SameValue(u, inp.X.est[2]) /\ SamePrimalFrom(u)

====
